---- MODULE Spec2Model ----
(***************************************************************************)
(* Model of the healthcare ETL command line tool: the Record Transformer   *)
(* (data_transformer.py), the Persistence Gateway (mysql_handler.py), the  *)
(* Remote Source Gateway (api_client.py) and the Orchestration Layer       *)
(* (cli_manager.py).                                                       *)
(*                                                                         *)
(* Spec           the command dispatcher over one database: fetch_data     *)
(*                (stepped per country and per table), insert_data,        *)
(*                create_tables, list_tables, drop_tables.                 *)
(* SpecTransform  the transformer as a pure function of a bounded input.   *)
(***************************************************************************)
EXTENDS Integers, Sequences, FiniteSets, TLC

(***************************************************************************)
(* Bounds of the model.                                                    *)
(***************************************************************************)
\* longest raw time series handed to the transformer in SpecTransform
MaxPoints == 2
\* longest batch handed directly to insert_data
MaxBatch == 2
\* most region codes in one fetched payload
MaxCountries == 3
\* most region codes in a payload that two runs are compared on in SpecRange
MaxTwinCountries == 1

(***************************************************************************)
(* Raw JSON values.  A string is the sequence of its characters, so that   *)
(* parsing is computed and not assumed.  A field that is absent from a     *)
(* point is absent from the point's DOMAIN.                                *)
(***************************************************************************)
NullV == [t |-> "null", s |-> <<>>, n |-> 0]
InfV == [t |-> "inf", s |-> <<>>, n |-> 0]
IntV(k) == [t |-> "int", s |-> <<>>, n |-> k]
StrV(chars) == [t |-> "str", s |-> chars, n |-> 0]

Digits == {"0", "1", "2", "3", "4", "5", "6", "7", "8", "9"}

DigitVal(c) ==
    CASE c = "0" -> 0 [] c = "1" -> 1 [] c = "2" -> 2 [] c = "3" -> 3
      [] c = "4" -> 4 [] c = "5" -> 5 [] c = "6" -> 6 [] c = "7" -> 7
      [] c = "8" -> 8 [] c = "9" -> 9

IsDigits(chars) == Len(chars) > 0 /\ \A i \in 1..Len(chars) : chars[i] \in Digits

RECURSIVE DigitsVal(_)
DigitsVal(chars) ==
    IF chars = <<>> THEN 0
    ELSE 10 * DigitsVal(SubSeq(chars, 1, Len(chars) - 1)) + DigitVal(chars[Len(chars)])

(***************************************************************************)
(* Dates.  NaT is pandas' "not a time".  A calendar date is [y, m, d].     *)
(***************************************************************************)
NaT == [y |-> 0, m |-> 0, d |-> 0]
\* 1970-01-01, what pd.to_datetime makes of the integer 0 (nanoseconds since the epoch)
EpochDate == [y |-> 1970, m |-> 1, d |-> 1]

IsLeap(y) == (y % 4 = 0 /\ y % 100 # 0) \/ y % 400 = 0

DaysIn(y, m) ==
    IF m = 2 THEN (IF IsLeap(y) THEN 29 ELSE 28)
    ELSE IF m \in {4, 6, 9, 11} THEN 30 ELSE 31

\* An ISO "YYYY-MM-DD" string parses to its calendar date when that date exists.
ParseIsoDate(chars) ==
    IF /\ Len(chars) = 10
       /\ chars[5] = "-" /\ chars[8] = "-"
       /\ IsDigits(SubSeq(chars, 1, 4))
       /\ IsDigits(SubSeq(chars, 6, 7))
       /\ IsDigits(SubSeq(chars, 9, 10))
    THEN LET y == DigitsVal(SubSeq(chars, 1, 4))
             m == DigitsVal(SubSeq(chars, 6, 7))
             d == DigitsVal(SubSeq(chars, 9, 10))
         IN IF y >= 1 /\ m \in 1..12 /\ d >= 1 /\ d <= DaysIn(y, m)
            THEN [y |-> y, m |-> m, d |-> d]
            ELSE NaT
    ELSE NaT

\* a <= b on calendar dates
DateLeq(a, b) ==
    \/ a.y < b.y
    \/ a.y = b.y /\ a.m < b.m
    \/ a.y = b.y /\ a.m = b.m /\ a.d <= b.d

\* 1969-12-31, the day a negative count of nanoseconds falls on
DayBeforeEpoch == [y |-> 1969, m |-> 12, d |-> 31]

\* pd.to_datetime(errors='coerce') of one cell, followed by .dt.date.  An integer
\* is a count of nanoseconds since the epoch; every integer of the model is
\* within a day of it.
ToDatetime(v) ==
    CASE v.t = "str" -> ParseIsoDate(v.s)
      [] v.t = "int" -> IF v.n >= 0 THEN EpochDate ELSE DayBeforeEpoch
      [] OTHER -> NaT

\* pd.to_numeric(errors='coerce') of one cell: NumNaN stands for NaN
NumNaN == [nan |-> TRUE, inf |-> FALSE, n |-> 0]
NumInf == [nan |-> FALSE, inf |-> TRUE, n |-> 0]
Num(k) == [nan |-> FALSE, inf |-> FALSE, n |-> k]

ToNumeric(v) ==
    CASE v.t = "int" -> Num(v.n)
      [] v.t = "inf" -> NumInf
      [] v.t = "str" -> IF IsDigits(v.s) THEN Num(DigitsVal(v.s)) ELSE NumNaN
      [] OTHER -> NumNaN

\* FillNa with the fill left out
FillNaForgotten(x) == x

\* .fillna(0)
FillNa(x) == IF x.nan THEN Num(0) ELSE x

\* astype('int64') raises on NaN and on an infinity
NonFinite(x) == x.nan \/ x.inf

(***************************************************************************)
(* The transformer.                                                        *)
(***************************************************************************)
cases_mapping ==
    [date |-> "report_date", total_cases |-> "total_cases", new_cases |-> "new_cases",
     total_deaths |-> "total_deaths", new_deaths |-> "new_deaths"]

vaccines_mapping ==
    [date |-> "report_date", total_vaccinations |-> "total_vaccinations",
     people_vaccinated |-> "people_vaccinated",
     people_fully_vaccinated |-> "people_fully_vaccinated"]

Range(f) == {f[x] : x \in DOMAIN f}

\* required_columns = list(columns_mapping.values()) + ['country_name']
RequiredColumns(mapping) == Range(mapping) \cup {"country_name"}

\* numeric_cols: the required columns other than report_date and country_name
NumericCols(mapping) == RequiredColumns(mapping) \ {"report_date", "country_name"}

\* The columns of pd.DataFrame(data): every key some point carries.
FrameColumns(data) == UNION {DOMAIN data[i] : i \in 1..Len(data)}

\* The source field a target column is renamed from.
SourceOf(mapping, col) == CHOOSE f \in DOMAIN mapping : mapping[f] = col

\* The cell of target column col in the row of point p, after the rename, the
\* defaulting of missing columns to 0 and the column selection.
Cell(data, p, mapping, col) ==
    LET f == SourceOf(mapping, col)
    IN IF f \notin FrameColumns(data) THEN IntV(0)
       ELSE IF f \in DOMAIN p THEN p[f]
       ELSE NullV

RECURSIVE DropNaT(_, _, _)
\* df.dropna(subset=['report_date']): the points of s, in order, whose date parsed.
DropNaT(s, data, mapping) ==
    IF s = <<>> THEN <<>>
    ELSE LET rest == DropNaT(Tail(s), data, mapping)
         IN IF ToDatetime(Cell(data, Head(s), mapping, "report_date")) # NaT
            THEN <<Head(s)>> \o rest
            ELSE rest

\* astype('int64') raises on a non-finite value of a row that survived dropna.
CastFails(data, kept, mapping) ==
    \E i \in 1..Len(kept) : \E c \in NumericCols(mapping) :
        NonFinite(FillNa(ToNumeric(Cell(data, kept[i], mapping, c))))

TransformRow(data, p, mapping, country_name) ==
    [c \in RequiredColumns(mapping) |->
        IF c = "report_date" THEN ToDatetime(Cell(data, p, mapping, c))
        ELSE IF c = "country_name" THEN country_name
        ELSE FillNa(ToNumeric(Cell(data, p, mapping, c))).n]

_transform_dataset(data, mapping, country_name) ==
    IF data = <<>> THEN <<>>
    ELSE IF FrameColumns(data) = {} THEN <<>>
    ELSE LET kept == DropNaT(data, data, mapping)
         IN IF CastFails(data, kept, mapping) THEN <<>>
            ELSE [i \in 1..Len(kept) |-> TransformRow(data, kept[i], mapping, country_name)]

\* country_data.get('location', 'Unknown')
LocationOf(country_data) ==
    IF "location" \in DOMAIN country_data THEN country_data["location"]
    ELSE <<"U", "n", "k", "n", "o", "w", "n">>

\* country_data.get('data', [])
DataOf(country_data) ==
    IF "data" \in DOMAIN country_data THEN country_data["data"] ELSE <<>>

transform_cases(country_data) ==
    _transform_dataset(DataOf(country_data), cases_mapping, LocationOf(country_data))

transform_vaccinations(country_data) ==
    _transform_dataset(DataOf(country_data), vaccines_mapping, LocationOf(country_data))

(***************************************************************************)
(* Text: a string is the sequence of its characters.                       *)
(***************************************************************************)
UpperCase == <<"A", "B", "C", "D", "E", "F", "G", "H", "I", "J", "K", "L", "M",
               "N", "O", "P", "Q", "R", "S", "T", "U", "V", "W", "X", "Y", "Z">>
LowerCase == <<"a", "b", "c", "d", "e", "f", "g", "h", "i", "j", "k", "l", "m",
               "n", "o", "p", "q", "r", "s", "t", "u", "v", "w", "x", "y", "z">>

LowerChar(c) ==
    IF \E i \in 1..Len(UpperCase) : UpperCase[i] = c
    THEN LowerCase[CHOOSE i \in 1..Len(UpperCase) : UpperCase[i] = c]
    ELSE c

\* str.lower()
Lower(chars) == [i \in 1..Len(chars) |-> LowerChar(chars[i])]

\* str.startswith(prefix)
StartsWith(chars, prefix) ==
    Len(chars) >= Len(prefix) /\ SubSeq(chars, 1, Len(prefix)) = prefix

AggregatePrefix == <<"O", "W", "I", "D", "_">>

\* IsAggregate matching the prefix in the wrong case
IsAggregateWrongCase(country_code) == StartsWith(country_code, Lower(AggregatePrefix))

\* country_code.startswith("OWID_")
IsAggregate(country_code) == StartsWith(country_code, AggregatePrefix)

(***************************************************************************)
(* The database: the tables of the schema and the committed rows of each.  *)
(* A table's rows are a bag: a function from row to its number of copies   *)
(* (no table declares a unique key).                                       *)
(***************************************************************************)
TableNames == {"daily_cases", "vaccination_data"}

EmptyTable == [r \in {} |-> 0]

CopiesOf(bag, r) == IF r \in DOMAIN bag THEN bag[r] ELSE 0

BagAdd(bag, r) == [x \in DOMAIN bag \cup {r} |-> CopiesOf(bag, x) + (IF x = r THEN 1 ELSE 0)]

RECURSIVE BagAddAll(_, _)
BagAddAll(bag, rowSeq) ==
    IF rowSeq = <<>> THEN bag ELSE BagAddAll(BagAdd(bag, Head(rowSeq)), Tail(rowSeq))

RECURSIVE BagSize(_)
BagSize(bag) ==
    IF DOMAIN bag = {} THEN 0
    ELSE LET r == CHOOSE x \in DOMAIN bag : TRUE
         IN bag[r] + BagSize([x \in DOMAIN bag \ {r} |-> bag[x]])

\* The stored rows of a table with the given key.
KeyCount(bag, report_date, country_name) ==
    BagSize([r \in {x \in DOMAIN bag : x["report_date"] = report_date
                                       /\ x["country_name"] = country_name} |-> bag[r]])

\* The existence check: SELECT 1 FROM table WHERE report_date = %s AND country_name = %s
RowExists(bag, row) ==
    \E x \in DOMAIN bag : x["report_date"] = row["report_date"]
                          /\ x["country_name"] = row["country_name"]

\* A datetime carries a time of day (secs); .date() drops it.
IsDatetime(v) == "secs" \in DOMAIN v

\* if isinstance(row['report_date'], datetime): row['report_date'] = row['report_date'].date()
ConvertRow(row) ==
    IF "report_date" \in DOMAIN row /\ IsDatetime(row["report_date"])
    THEN [row EXCEPT !["report_date"] = [y |-> @.y, m |-> @.m, d |-> @.d]]
    ELSE row

\* Rollback that leaves the open transaction's rows in the table
RollbackKeepsPending(committed, pending) == BagAddAll(committed, pending)

\* conn.rollback(): the statements of the open transaction are discarded.
Rollback(committed, pending) == committed

\* conn.commit(): the statements of the open transaction become the table's rows.
Commit(committed, pending) == BagAddAll(committed, pending)

RequiredFields == {"report_date", "country_name"}

\* The rows of the batch the existence check finds in the table / does not find.
RECURSIVE NewData(_, _)
NewData(bag, data) ==
    IF data = <<>> THEN <<>>
    ELSE IF RowExists(bag, ConvertRow(Head(data))) THEN NewData(bag, Tail(data))
    ELSE <<ConvertRow(Head(data))>> \o NewData(bag, Tail(data))

\* The faults the database can raise inside insert_data (mysql.connector.Error).
InsertFaults == {"none", "cursor", "select", "executemany", "commit"}

\* The record of a step's call: the operation, its table, how it ended, what it
\* returned (ret: insert_data's count, ok: a boolean result, listed: list_tables'
\* names, result: query_data's rows), the duplicates it skipped, the remote fetch's
\* outcome, whether the call before it was a drop_tables that returned success,
\* and whether the call got as far as binding its local `cursor`.
NoCall == [op |-> "none", table |-> "", outcome |-> "", ret |-> 0,
           skipped |-> 0, ok |-> FALSE, listed |-> <<>>, api |-> "", after_drop |-> FALSE,
           bound |-> FALSE, result |-> <<>>]

\* How a gateway call left: by a return statement of the try body (or before it),
\* through an except clause that logs and returns, or by an exception no clause
\* catches, which goes on to the caller.
Exits == {"return", "logged", "raised"}

\* A close() written as the last statement of the try body: run on a return only
CursorsAfterCloseInBody(open, bound, exit) ==
    LET opened == open + (IF bound THEN 1 ELSE 0)
    IN IF bound /\ exit = "return" THEN opened - 1 ELSE opened

\* The cursors open on the connection after a call: conn.cursor() opens one when
\* the call gets that far, and the finally clause, run on every exit, closes it
\* when the local is bound (if 'cursor' in locals(): cursor.close()).
CursorsAfter(open, bound, exit) ==
    LET opened == open + (IF bound THEN 1 ELSE 0)
    IN IF bound THEN opened - 1 ELSE opened

\* Whether the schema declares (report_date, country_name) unique.  The DDL script
\* is not part of the sources; the specification states that it declares no such key.
UniqueKeyDeclared == FALSE

\* Two rows of the batch to insert share a key.
SharesKey(rowSeq) ==
    \E i, j \in 1..Len(rowSeq) :
        /\ i < j
        /\ rowSeq[i]["report_date"] = rowSeq[j]["report_date"]
        /\ rowSeq[i]["country_name"] = rowSeq[j]["country_name"]

(***************************************************************************)
(* insert_data(table, data) on a database (present: the tables that exist, *)
(* bags: their rows) under a fault: the rows of the table afterwards and   *)
(* the call's record (outcome, return value, skipped count).               *)
(*   empty       no data, nothing done                                     *)
(*   rejected    the first row lacks a required field                      *)
(*   db_error    mysql.connector.Error, rolled back                        *)
(*   unexpected  any other exception (a later row lacks a key), rolled back*)
(*   inserted    the new rows were committed                               *)
(*   no_new      every row was a duplicate                                 *)
(***************************************************************************)
insert_data(present, bags, table, data, fault) ==
    LET made(outcome, ret, skipped, bound) ==
            [NoCall EXCEPT !.op = "insert_data", !.table = table, !.outcome = outcome,
                           !.ret = ret, !.skipped = skipped, !.bound = bound]
        \* cursor = self.conn.cursor() has run on every path below the cursor fault
        call(outcome, ret, skipped) == made(outcome, ret, skipped, TRUE)
        old == bags[table]
    IN IF data = <<>> THEN [rows |-> old, call |-> made("empty", 0, 0, FALSE)]
       ELSE IF ~(RequiredFields \subseteq DOMAIN data[1])
       THEN [rows |-> old, call |-> made("rejected", 0, 0, FALSE)]
       ELSE IF fault = "cursor"
       THEN [rows |-> Rollback(old, <<>>), call |-> made("db_error", 0, 0, FALSE)]
       ELSE IF table \notin present \/ fault = "select"
       THEN [rows |-> Rollback(old, <<>>), call |-> call("db_error", 0, 0)]
       ELSE IF \E i \in 1..Len(data) : ~(RequiredFields \subseteq DOMAIN data[i])
       THEN [rows |-> Rollback(old, <<>>), call |-> call("unexpected", 0, 0)]
       ELSE LET new_data == NewData(old, data)
                skipped == Len(data) - Len(new_data)
            IN IF new_data = <<>>
               THEN [rows |-> old, call |-> call("no_new", 0, skipped)]
               ELSE IF fault = "executemany" \/ (UniqueKeyDeclared /\ SharesKey(new_data))
               THEN [rows |-> Rollback(old, SubSeq(new_data, 1, Len(new_data) - 1)),
                     call |-> call("db_error", 0, skipped)]
               ELSE IF fault = "commit"
               THEN [rows |-> Rollback(old, new_data),
                     call |-> call("db_error", 0, skipped)]
               ELSE [rows |-> Commit(old, new_data),
                     call |-> call("inserted", Len(new_data), skipped)]

(***************************************************************************)
(* The other gateway operations.                                           *)
(***************************************************************************)
\* SHOW TABLES lists the schema's tables by name.
SortedTables(present) ==
    (IF "daily_cases" \in present THEN <<"daily_cases">> ELSE <<>>)
    \o (IF "vaccination_data" \in present THEN <<"vaccination_data">> ELSE <<>>)

\* What can go wrong inside a gateway call: conn.cursor() raises a
\* mysql.connector.Error (cursor), a statement or the commit does (error), or
\* an exception of another class is raised once the cursor is open (raised).
Faults == {"none", "cursor", "error", "raised"}

\* The exit a call takes under a fault: only mysql.connector.Error is caught.
ExitOf(fault) ==
    CASE fault = "none" -> "return"
      [] fault = "raised" -> "raised"
      [] OTHER -> "logged"

\* cursor = self.conn.cursor() is the first statement of the try body: the
\* local is bound unless that call itself raised.
CursorBound(fault) == fault # "cursor"

\* insert_data leaves by a return, or through one of its two except clauses.
InsertExit(outcome) == IF outcome \in {"db_error", "unexpected"} THEN "logged" ELSE "return"

\* list_tables(): the table names, or [] on a database error
list_tables(present, fault) == IF fault = "none" THEN SortedTables(present) ELSE <<>>

\* The drop statement naming one table only
DroppedOnlyCases == {"daily_cases"}

\* DROP TABLE IF EXISTS daily_cases, vaccination_data
DroppedByStatement == {"daily_cases", "vaccination_data"}

\* The tables left by drop_tables(): none of the two on success.  DDL is not
\* transactional, so a failed call may have dropped any of them already.
drop_tables(present, fault, gone) ==
    IF fault = "none" THEN present \ DroppedByStatement
    ELSE IF fault = "cursor" THEN present
    ELSE present \ gone

\* The tables sql/create_tables.sql creates.
CreatedByScript == {"daily_cases", "vaccination_data"}

(***************************************************************************)
(* query_data(sql, params), for the three statements the command line      *)
(* issues.  A result is a sequence of tuples; SQL leaves the order of rows *)
(* open where the statement does not order them, so a query has a set of   *)
(* possible results.                                                       *)
(***************************************************************************)
SqlNull == [null |-> TRUE, n |-> 0]
SqlInt(k) == [null |-> FALSE, n |-> k]

\* The rows of a table with country_name = %s.
RowsOf(bag, country) ==
    [r \in {x \in DOMAIN bag : x["country_name"] = country} |-> bag[r]]

RECURSIVE SumOf(_, _)
\* SUM(metric) over the rows of a bag
SumOf(bag, metric) ==
    IF DOMAIN bag = {} THEN 0
    ELSE LET r == CHOOSE x \in DOMAIN bag : TRUE
         IN bag[r] * r[metric] + SumOf([x \in DOMAIN bag \ {r} |-> bag[x]], metric)

\* The orders in which the rows of a bag can come back.
RowOrders(bag) ==
    {s \in [1..BagSize(bag) -> DOMAIN bag] :
        \A r \in DOMAIN bag : Cardinality({i \in DOMAIN s : s[i] = r}) = bag[r]}

\* SELECT SUM(new_cases) FROM daily_cases WHERE country_name = %s: one tuple,
\* NULL when no row matches.
TotalCases(bag, country) ==
    LET matching == RowsOf(bag, country)
    IN {<< <<IF DOMAIN matching = {} THEN SqlNull ELSE SqlInt(SumOf(matching, "new_cases"))>> >>}

\* SELECT report_date, {metric} FROM daily_cases WHERE country_name = %s
DailyTrends(bag, country, metric) ==
    {[i \in DOMAIN s |-> <<s[i]["report_date"], SqlInt(s[i][metric])>>] :
        s \in RowOrders(RowsOf(bag, country))}

\* MAX(metric) of a country's rows
MaxOf(bag, country, metric) ==
    LET matching == DOMAIN RowsOf(bag, country)
    IN (CHOOSE r \in matching : \A x \in matching : x[metric] <= r[metric])[metric]

Min(a, b) == IF a <= b THEN a ELSE b

\* SELECT country_name, MAX({metric}) as total FROM daily_cases
\* GROUP BY country_name ORDER BY total DESC LIMIT %s
TopCountries(bag, n, metric) ==
    LET groups == {<<c, SqlInt(MaxOf(bag, c, metric))>> :
                      c \in {r["country_name"] : r \in DOMAIN bag}}
        k == Min(n, Cardinality(groups))
    IN {s \in [1..k -> groups] :
          /\ \A i, j \in 1..k : i < j => (s[i] # s[j] /\ s[i][2].n >= s[j][2].n)
          /\ \A g \in groups : (\A i \in 1..k : s[i] # g) => (k = 0 \/ g[2].n <= s[k][2].n)}

\* The results the statement can give on the stored rows.
Selected(bag, query) ==
    CASE query.kind = "total_cases" -> TotalCases(bag, query.country)
      [] query.kind = "daily_trends" -> DailyTrends(bag, query.country, query.metric)
      [] OTHER -> TopCountries(bag, query.n, query.metric)

\* query_data: the fetched rows, or [] when a mysql.connector.Error is logged
\* (all three statements read daily_cases, which may not exist).
query_data(present, bags, query, fault) ==
    IF fault = "none" /\ "daily_cases" \in present
    THEN Selected(bags["daily_cases"], query)
    ELSE {<<>>}

(***************************************************************************)
(* The remote source.                                                      *)
(***************************************************************************)
FetchOutcomes == {"ok", "transport_error", "http_error"}

\* api_fetch_data without raise_for_status(): an error response's body is returned
api_fetch_dataNoStatusCheck(outcome, body) ==
    IF outcome = "transport_error" THEN <<>> ELSE body

\* APIClient.fetch_data(): the response's JSON, or {} on any requests.RequestException
\* (the transport failed, or raise_for_status() met an error status)
api_fetch_data(outcome, body) == IF outcome = "ok" THEN body ELSE <<>>

\* A JSON object, as opposed to null.
ObjV(fields) == [t |-> "obj", s |-> <<>>, n |-> 0, o |-> fields]
IsMapping(v) == v.t = "obj"

(***************************************************************************)
(* Inputs of the model.                                                    *)
(***************************************************************************)
Day1 == <<"2", "0", "2", "1", "-", "0", "5", "-", "0", "1">>
NoSuchDay == <<"2", "0", "2", "1", "-", "0", "2", "-", "3", "0">>
NotADate == <<"s", "o", "o", "n">>

Italy == <<"I", "t", "a", "l", "y">>
France == <<"F", "r", "a", "n", "c", "e">>
Spain == <<"S", "p", "a", "i", "n">>
World == <<"W", "o", "r", "l", "d">>

\* {date: "2021-05-01", new_cases: "100", total_deaths: null}
ItalyPoint ==
    [f \in {"date", "new_cases", "total_deaths"} |->
        CASE f = "date" -> StrV(Day1)
          [] f = "new_cases" -> StrV(<<"1", "0", "0">>)
          [] OTHER -> NullV]

\* {date: "2021-05-01", new_cases: Infinity, total_vaccinations: 7}
FrancePoint1 ==
    [f \in {"date", "new_cases", "total_vaccinations"} |->
        CASE f = "date" -> StrV(Day1)
          [] f = "new_cases" -> InfV
          [] OTHER -> IntV(7)]

\* {date: "2021-05-01", new_cases: 7, total_vaccinations: 7}: the same day again
FrancePoint2 ==
    [f \in {"date", "new_cases", "total_vaccinations"} |->
        CASE f = "date" -> StrV(Day1)
          [] f = "new_cases" -> IntV(7)
          [] OTHER -> IntV(7)]

Code(a, b, c) == <<a, b, c>>

SampleEntries ==
    { [code |-> AggregatePrefix \o <<"W", "R", "L">>,
       rec |-> ObjV([f \in {"location", "data"} |->
                       IF f = "location" THEN World ELSE <<FrancePoint2>>])],
      [code |-> Code("I", "T", "A"),
       rec |-> ObjV([f \in {"location", "data"} |->
                       IF f = "location" THEN Italy ELSE <<ItalyPoint>>])],
      [code |-> Code("F", "R", "A"),
       rec |-> ObjV([f \in {"location", "data"} |->
                       IF f = "location" THEN France ELSE <<FrancePoint1, FrancePoint2>>])],
      [code |-> Code("E", "S", "P"),
       rec |-> ObjV([f \in {"location"} |-> Spain])],
      [code |-> Code("D", "E", "U"), rec |-> NullV] }

\* The payloads: the JSON objects of at most MaxCountries of the entries, in any order.
Payloads ==
    UNION { {p \in [1..n -> SampleEntries] : \A i, j \in 1..n : i # j => p[i].code # p[j].code}
            : n \in 0..MaxCountries }

\* What a response carries: any payload when the request succeeded, some body
\* with an error status, nothing when the transport failed.
ResponsesOf(outcome) ==
    CASE outcome = "ok" -> Payloads
      [] outcome = "http_error" -> {p \in Payloads : Len(p) = 1 /\ p[1].code = Code("I", "T", "A")}
      [] OTHER -> {<<>>}

DataTypes == {"cases", "vaccinations", "all"}

\* --start_date and --end_date: omitted (None), a range that starts the day
\* after the sample points' date, a range that ends the day before it.
Day2 == <<"2", "0", "2", "1", "-", "0", "5", "-", "0", "2">>
Day0 == <<"2", "0", "2", "1", "-", "0", "4", "-", "3", "0">>
DateRanges ==
    {[start_date |-> NullV, end_date |-> NullV],
     [start_date |-> StrV(Day2), end_date |-> NullV],
     [start_date |-> NullV, end_date |-> StrV(Day0)]}

\* --country
CountryArgs == {<<"a", "l", "l">>, <<"A", "L", "L">>, Italy}

Without(row, field) == [c \in DOMAIN row \ {field} |-> row[c]]

\* The rows handed directly to insert_data for a table: the Italian row of day 1
\* (as a date and as a datetime) and the same row lacking either key field.
DirectRows(table) ==
    LET mapping == IF table = "daily_cases" THEN cases_mapping ELSE vaccines_mapping
        base == TransformRow(<<ItalyPoint>>, ItalyPoint, mapping, Italy)
        asDatetime == [base EXCEPT !["report_date"] =
                          [y |-> @.y, m |-> @.m, d |-> @.d, secs |-> 43200]]
    IN {base, asDatetime, Without(base, "report_date"), Without(base, "country_name")}

Batches(table) == UNION {[1..n -> DirectRows(table)] : n \in 0..MaxBatch}

(***************************************************************************)
(* State.                                                                  *)
(***************************************************************************)
VARIABLES
    exists,       \* the tables of the schema
    rows,         \* the committed rows of each table, a bag per table name
    last,         \* the gateway call or command outcome of the latest step
    pc,           \* idle | fetch | loop | cases | vaccs: where the running fetch_data is
    country,      \* --country of the running fetch_data, until it is looked up
    dataset,      \* _fetch_all_countries: the payload being iterated
    data_type,    \* --data_type of the running fetch_data
    all_mode,     \* the running fetch_data iterates all countries
    idx,          \* position of the iteration in the payload
    processed,    \* _fetch_all_countries: processed
    skipped,      \* _fetch_all_countries: skipped
    name_bound,   \* _fetch_all_countries: the local country_name has been assigned
    attempted,    \* codes whose processing was entered (the try block), in order
    current,      \* the country_data being processed
    cases_result, \* what the cases half of _process_country_data did
    start_date,   \* --start_date of the running fetch_data
    end_date,     \* --end_date of the running fetch_data
    twin_rows,    \* SpecRange: the rows of the tables in the second of two runs
    twin_last,    \* SpecRange: the latest step's call in the second run
    twin_start,   \* SpecRange: --start_date of the second run
    twin_end,     \* SpecRange: --end_date of the second run
    tData,        \* SpecTransform: the raw points
    tLocation,    \* SpecTransform: the record carries a location
    tOut,         \* SpecTransform: the transformer's output, once applied
    open_cursors  \* the cursors opened on the connection and not closed

dbVars == <<exists, rows, open_cursors>>
runVars == <<pc, country, dataset, data_type, all_mode, idx, processed, skipped, name_bound,
             attempted, current, cases_result, start_date, end_date>>
tVars == <<tData, tLocation, tOut>>
twinVars == <<twin_rows, twin_last, twin_start, twin_end>>
vars == <<exists, rows, last, pc, country, dataset, data_type, all_mode, idx, processed, skipped,
          name_bound, attempted, current, cases_result, tData, tLocation, tOut,
          open_cursors, start_date, end_date, twin_rows, twin_last, twin_start, twin_end>>

NotApplied == [applied |-> FALSE, cases |-> <<>>, vaccinations |-> <<>>]

IdleRun ==
    /\ pc = "idle" /\ country = <<>> /\ dataset = <<>> /\ data_type = "all"
    /\ all_mode = FALSE
    /\ idx = 0 /\ processed = 0 /\ skipped = 0 /\ name_bound = FALSE
    /\ attempted = <<>> /\ current = NullV /\ cases_result = "none"
    /\ start_date = NullV /\ end_date = NullV

\* No second run is being compared.
NoTwin ==
    /\ twin_rows = [t \in TableNames |-> EmptyTable] /\ twin_last = NoCall
    /\ twin_start = NullV /\ twin_end = NullV

Init ==
    /\ exists = {}
    /\ rows = [t \in TableNames |-> EmptyTable]
    /\ open_cursors = 0
    /\ last = NoCall
    /\ IdleRun
    /\ NoTwin
    /\ tData = <<>> /\ tLocation = TRUE /\ tOut = NotApplied

\* A command ended: the process exits and its locals are gone.
EndRun ==
    /\ pc' = "idle" /\ country' = <<>> /\ dataset' = <<>> /\ data_type' = "all"
    /\ all_mode' = FALSE
    /\ idx' = 0 /\ processed' = 0 /\ skipped' = 0 /\ name_bound' = FALSE
    /\ attempted' = <<>> /\ current' = NullV /\ cases_result' = "none"
    /\ start_date' = NullV /\ end_date' = NullV

Outcome(op, outcome) == [NoCall EXCEPT !.op = op, !.outcome = outcome]

(***************************************************************************)
(* Persistence Gateway operations called on their own.                     *)
(***************************************************************************)
\* create_tables leaves by its return, through one of its two except clauses,
\* or with the exception neither of them catches.
CreateExit(result) ==
    CASE result = "created" -> "return"
      [] result = "raised" -> "raised"
      [] OTHER -> "logged"

\* init_db.py: create_tables().  A missing script changes nothing; a statement
\* error may leave the tables created before it (DDL is not rolled back).
CreateTables(result, made) ==
    /\ pc = "idle"
    /\ exists' = CASE result = "created" -> exists \cup CreatedByScript
                   [] result = "error" -> exists \cup made
                   [] OTHER -> exists
    /\ open_cursors' = CursorsAfter(open_cursors, CursorBound(result), CreateExit(result))
    /\ last' = [Outcome("create_tables", result) EXCEPT !.ok = (result = "created"),
                                                        !.bound = CursorBound(result)]
    /\ UNCHANGED <<rows, runVars, tVars, twinVars>>

InsertData(table, data, fault) ==
    /\ pc = "idle"
    /\ LET res == insert_data(exists, rows, table, data, fault)
       IN /\ rows' = [rows EXCEPT ![table] = res.rows]
          /\ open_cursors' = CursorsAfter(open_cursors, res.call.bound,
                                          InsertExit(res.call.outcome))
          /\ last' = res.call
    /\ UNCHANGED <<exists, runVars, tVars, twinVars>>

\* query_data <query type>: one statement through query_data(sql, params).  The
\* statement fails on its own where daily_cases does not exist.
QueryData(query, fault) ==
    /\ pc = "idle"
    /\ LET how == IF fault = "none" /\ "daily_cases" \notin exists THEN "error" ELSE fault
       IN /\ \E result \in query_data(exists, rows, query, fault) :
                last' = [Outcome("query_data", how) EXCEPT !.result = result,
                                                          !.bound = CursorBound(how)]
          /\ open_cursors' = CursorsAfter(open_cursors, CursorBound(how), ExitOf(how))
    /\ UNCHANGED <<exists, rows, runVars, tVars, twinVars>>

ListTables(fault) ==
    /\ pc = "idle"
    /\ last' = [Outcome("list_tables", fault) EXCEPT
                    !.listed = list_tables(exists, fault),
                    !.after_drop = (last.op = "drop_tables" /\ last.ok),
                    !.bound = CursorBound(fault)]
    /\ open_cursors' = CursorsAfter(open_cursors, CursorBound(fault), ExitOf(fault))
    /\ UNCHANGED <<exists, rows, runVars, tVars, twinVars>>

DropTables(fault, gone) ==
    /\ pc = "idle"
    /\ exists' = drop_tables(exists, fault, gone)
    /\ rows' = [t \in TableNames |-> IF t \in exists' THEN rows[t] ELSE EmptyTable]
    /\ open_cursors' = CursorsAfter(open_cursors, CursorBound(fault), ExitOf(fault))
    /\ last' = [Outcome("drop_tables", fault) EXCEPT !.ok = (fault = "none"),
                                                     !.bound = CursorBound(fault)]
    /\ UNCHANGED <<runVars, tVars, twinVars>>

(***************************************************************************)
(* fetch_data.                                                             *)
(***************************************************************************)
RECURSIVE FindCountry(_, _, _)
\* next((data for data in dataset.values() if data.get('location') == args.country), None):
\* the position of the first record with that location, 0 when there is none,
\* -1 when a record met before it is no mapping (data.get raises).
FindCountry(ds, wanted, i) ==
    IF i > Len(ds) THEN 0
    ELSE IF ~IsMapping(ds[i].rec) THEN -1
    ELSE IF "location" \in DOMAIN ds[i].rec.o /\ ds[i].rec.o["location"] = wanted THEN i
    ELSE FindCountry(ds, wanted, i + 1)

\* data_type in ['cases', 'all']
WantsCases(dt) == dt \in {"cases", "all"}

\* WantsVaccinations without 'all'
WantsVaccinationsOnly(dt) == dt = "vaccinations"

\* data_type in ['vaccinations', 'all']
WantsVaccinations(dt) == dt \in {"vaccinations", "all"}

\* The steps of fetch_data below say nothing of a second run; HandleFetch,
\* LoopNext, ProcessCases, ProcessVaccinations and LoopEnd are the steps of one
\* run on its own, and SpecRange takes the same steps in two runs side by side.
\*
\* run: the parsed arguments of a fetch_data command, before the payload is
\* fetched.
run_fetch_data(name, dt, range) ==
    /\ pc = "idle"
    /\ pc' = "fetch" /\ country' = name /\ data_type' = dt
    /\ start_date' = range.start_date /\ end_date' = range.end_date
    /\ last' = Outcome("fetch_data", "started")
    /\ UNCHANGED <<dataset, all_mode, idx, processed, skipped, name_bound, attempted,
                   current, cases_result>>
    /\ UNCHANGED <<dbVars, tVars>>

\* _handle_fetch: fetch the payload, then enter the loop over all countries or
\* look the one country up.
_handle_fetch(outcome, payload) ==
    /\ pc = "fetch"
    /\ LET ds == api_fetch_data(outcome, payload)
           found == FindCountry(ds, country, 1)
           Ended(how) == [Outcome("fetch_data", how) EXCEPT !.api = outcome]
       IN IF ds = <<>>
          THEN /\ last' = Ended("fetch_failed")
               /\ EndRun
          ELSE IF Lower(country) = <<"a", "l", "l">>
          THEN /\ last' = Ended("fetched")
               /\ pc' = "loop" /\ country' = <<>> /\ dataset' = ds /\ all_mode' = TRUE
               /\ idx' = 1 /\ processed' = 0 /\ skipped' = 0 /\ name_bound' = FALSE
               /\ attempted' = <<>> /\ current' = NullV /\ cases_result' = "none"
               /\ UNCHANGED <<data_type, start_date, end_date>>
          ELSE IF found = -1
          THEN /\ last' = Ended("aborted")
               /\ EndRun
          ELSE IF found = 0
          THEN /\ last' = Ended("not_found")
               /\ EndRun
          ELSE /\ last' = Ended("fetched")
               /\ pc' = "cases" /\ country' = <<>> /\ dataset' = <<>> /\ all_mode' = FALSE
               /\ idx' = 0 /\ processed' = 0 /\ skipped' = 0 /\ name_bound' = FALSE
               /\ attempted' = <<ds[found].code>> /\ current' = ds[found].rec
               /\ cases_result' = "none"
               /\ UNCHANGED <<data_type, start_date, end_date>>
    /\ UNCHANGED <<dbVars, tVars>>

\* _fetch_all_countries, one iteration up to the call of _process_country_data:
\* an aggregate code is skipped; a record that is no mapping raises at
\* country_data.get, and the handler's log line reads country_name, which raises
\* in turn (and ends the command) when no earlier country assigned it.
_fetch_all_countries ==
    /\ pc = "loop" /\ idx <= Len(dataset)
    /\ LET e == dataset[idx]
       IN IF IsAggregate(e.code)
          THEN /\ skipped' = skipped + 1 /\ idx' = idx + 1
               /\ last' = Outcome("fetch_data", "aggregate")
               /\ UNCHANGED <<pc, country, dataset, data_type, all_mode, processed,
                              name_bound, attempted, current, cases_result, start_date,
                              end_date>>
          ELSE IF ~IsMapping(e.rec)
          THEN IF name_bound
               THEN /\ skipped' = skipped + 1 /\ idx' = idx + 1
                    /\ attempted' = Append(attempted, e.code)
                    /\ last' = Outcome("fetch_data", "country_failed")
                    /\ UNCHANGED <<pc, country, dataset, data_type, all_mode, processed,
                                   name_bound, current, cases_result, start_date,
                                   end_date>>
               ELSE /\ last' = Outcome("fetch_data", "aborted")
                    /\ EndRun
          ELSE /\ pc' = "cases" /\ current' = e.rec /\ name_bound' = TRUE
               /\ attempted' = Append(attempted, e.code)
               /\ last' = Outcome("fetch_data", "processing")
               /\ UNCHANGED <<country, dataset, data_type, all_mode, idx, processed,
                              skipped, cases_result, start_date, end_date>>
    /\ UNCHANGED <<dbVars, tVars>>

\* A transformer call handed only the points dated within
\* [start_date, end_date]
TransformArgumentInRange(country_data, from, to) ==
    LET Within(p) ==
            LET day == IF "date" \in DOMAIN p THEN ToDatetime(p["date"]) ELSE NaT
            IN /\ day # NaT
               /\ from # NullV => DateLeq(ToDatetime(from), day)
               /\ to # NullV => DateLeq(day, ToDatetime(to))
    IN IF "data" \in DOMAIN country_data.o
       THEN [country_data EXCEPT !.o["data"] = SelectSeq(@, Within)]
       ELSE country_data

\* What _process_country_data hands the transformer: the country_data it was
\* called with.  It is called with the record and args.data_type; the date
\* range stays in _handle_fetch's args.
TransformArgument(country_data, from, to) == country_data

\* One half of _process_country_data under a date range: the rows of the table
\* afterwards, the insert_data call made (NoCall when there was none) and the
\* rows the transformer gave.
ProcessedHalf(bags, table, fault, from, to) ==
    LET country_data == TransformArgument(current, from, to).o
        wanted == IF table = "daily_cases" THEN WantsCases(data_type)
                  ELSE WantsVaccinations(data_type)
        transformed == IF table = "daily_cases" THEN transform_cases(country_data)
                       ELSE transform_vaccinations(country_data)
        res == insert_data(exists, bags, table, transformed, fault)
    IN IF wanted /\ transformed # <<>>
       THEN [rows |-> [bags EXCEPT ![table] = res.rows], call |-> res.call,
             inserted |-> TRUE, wanted |-> wanted]
       ELSE [rows |-> bags, call |-> NoCall, inserted |-> FALSE, wanted |-> wanted]

\* _process_country_data, the cases half
_process_country_data_cases(fault) ==
    /\ pc = "cases"
    /\ LET half == ProcessedHalf(rows, "daily_cases", fault, start_date, end_date)
       IN /\ rows' = half.rows
          /\ last' = half.call
          /\ IF half.inserted
             THEN /\ open_cursors' = CursorsAfter(open_cursors, half.call.bound,
                                                  InsertExit(half.call.outcome))
                  /\ cases_result' = half.call.outcome
             ELSE /\ open_cursors' = open_cursors
                  /\ cases_result' = IF half.wanted THEN "no_data" ELSE "not_wanted"
    /\ pc' = "vaccs"
    /\ UNCHANGED <<exists, country, dataset, data_type, all_mode, idx, processed,
                   skipped, name_bound, attempted, current, start_date, end_date, tVars>>

\* _process_country_data, the vaccinations half; then the loop counts the country
\* as processed, or the single-country command ends.
_process_country_data_vaccinations(fault) ==
    /\ pc = "vaccs"
    /\ LET half == ProcessedHalf(rows, "vaccination_data", fault, start_date, end_date)
       IN /\ rows' = half.rows
          /\ last' = half.call
          /\ open_cursors' = IF half.inserted
                             THEN CursorsAfter(open_cursors, half.call.bound,
                                               InsertExit(half.call.outcome))
                             ELSE open_cursors
    /\ IF all_mode
       THEN /\ pc' = "loop" /\ processed' = processed + 1 /\ idx' = idx + 1
            /\ current' = NullV
            /\ UNCHANGED <<country, dataset, data_type, all_mode, skipped, name_bound,
                           attempted, cases_result, start_date, end_date>>
       ELSE EndRun
    /\ UNCHANGED <<exists, tVars>>

\* _fetch_all_countries: the loop is over, the tally is logged, the command ends.
_fetch_all_countries_end ==
    /\ pc = "loop" /\ idx > Len(dataset)
    /\ last' = Outcome("fetch_data", "done")
    /\ EndRun
    /\ UNCHANGED <<dbVars, tVars>>

\* fetch_data without --start_date and --end_date
NoRange == [start_date |-> NullV, end_date |-> NullV]

\* The steps of one fetch_data run on its own.
RunFetch(name, dt) == run_fetch_data(name, dt, NoRange) /\ UNCHANGED twinVars

HandleFetch(outcome, payload) == _handle_fetch(outcome, payload) /\ UNCHANGED twinVars

LoopNext == _fetch_all_countries /\ UNCHANGED twinVars

ProcessCases(fault) == _process_country_data_cases(fault) /\ UNCHANGED twinVars

ProcessVaccinations(fault) == _process_country_data_vaccinations(fault) /\ UNCHANGED twinVars

LoopEnd == _fetch_all_countries_end /\ UNCHANGED twinVars

\* How create_tables can end: the script ran, open() found no script, a
\* statement raised, conn.cursor() raised, or reading the script raised an
\* exception that is neither FileNotFoundError nor a database error.
CreateResults == {"created", "no_script", "error", "cursor", "raised"}

\* The statements of the command line: query_data total_cases <country>,
\* daily_trends <country> <metric>, top_countries <n> <metric>.
Queries ==
    {[kind |-> "total_cases", country |-> c, metric |-> "new_cases", n |-> 0] :
        c \in {Italy, Spain}}
    \cup {[kind |-> "daily_trends", country |-> Italy, metric |-> "new_cases", n |-> 0],
          [kind |-> "top_countries", country |-> <<>>, metric |-> "total_cases", n |-> 1]}

Next ==
    \/ \E result \in CreateResults, made \in SUBSET CreatedByScript : CreateTables(result, made)
    \/ \E table \in TableNames : \E data \in Batches(table), fault \in InsertFaults :
          InsertData(table, data, fault)
    \/ \E query \in Queries, fault \in Faults : QueryData(query, fault)
    \/ \E fault \in Faults : ListTables(fault)
    \/ \E fault \in Faults, gone \in SUBSET DroppedByStatement : DropTables(fault, gone)
    \/ \E name \in CountryArgs, dt \in DataTypes : RunFetch(name, dt)
    \/ \E outcome \in FetchOutcomes : \E payload \in ResponsesOf(outcome) :
          HandleFetch(outcome, payload)
    \/ LoopNext
    \/ \E fault \in InsertFaults : ProcessCases(fault)
    \/ \E fault \in InsertFaults : ProcessVaccinations(fault)
    \/ LoopEnd

Spec == Init /\ [][Next]_vars

(***************************************************************************)
(* The transformer on its own: the raw points are built one by one, then   *)
(* both transforms are applied to the record that carries them.            *)
(***************************************************************************)
NoPoint == [f \in {} |-> NullV]

RawDates == {NullV, StrV(NotADate), StrV(NoSuchDay), StrV(Day1)}
RawMetrics == {NullV, StrV(<<"n", "/", "a">>), StrV(<<"1", "0", "0">>), IntV(7), InfV}

\* The points of the model: every choice of date and new_cases (each possibly
\* absent), and the points of the sample payload.
SamplePoints ==
    {[f \in {"date", "new_cases"} |-> IF f = "date" THEN dv ELSE mv] :
        dv \in RawDates, mv \in RawMetrics}
    \cup {[f \in {"date"} |-> dv] : dv \in RawDates}
    \cup {[f \in {"new_cases"} |-> mv] : mv \in RawMetrics}
    \cup {NoPoint, ItalyPoint, FrancePoint1, FrancePoint2}

\* The record the transforms are handed.
TRecord ==
    IF tLocation
    THEN [f \in {"location", "data"} |-> IF f = "location" THEN Italy ELSE tData]
    ELSE [f \in {"data"} |-> tData]

InitT ==
    /\ exists = {}
    /\ rows = [t \in TableNames |-> EmptyTable]
    /\ open_cursors = 0
    /\ last = NoCall
    /\ IdleRun
    /\ NoTwin
    /\ tData = <<>> /\ tLocation \in BOOLEAN /\ tOut = NotApplied

AddPoint(p) ==
    /\ ~tOut.applied /\ Len(tData) < MaxPoints
    /\ tData' = Append(tData, p)
    /\ UNCHANGED <<dbVars, last, runVars, tLocation, tOut, twinVars>>

ApplyTransforms ==
    /\ ~tOut.applied
    /\ tOut' = [applied |-> TRUE, cases |-> transform_cases(TRecord),
                vaccinations |-> transform_vaccinations(TRecord)]
    /\ UNCHANGED <<dbVars, last, runVars, tData, tLocation, twinVars>>

NextT ==
    \/ \E p \in SamplePoints : AddPoint(p)
    \/ ApplyTransforms

SpecTransform == InitT /\ [][NextT]_vars

(***************************************************************************)
(* SpecRange: two fetch_data runs side by side, on the same payload, the   *)
(* same arguments but for --start_date and --end_date, the same database   *)
(* state and the same faults.  The first run is the run of the variables   *)
(* above; of the second only what can differ is kept: its date range, its  *)
(* rows and its latest call.                                               *)
(***************************************************************************)
\* The payloads of SpecRange.
TwinPayloads == {p \in Payloads : Len(p) <= MaxTwinCountries}

InitR ==
    /\ exists \in SUBSET CreatedByScript
    /\ rows = [t \in TableNames |-> EmptyTable]
    /\ open_cursors = 0
    /\ last = NoCall
    /\ IdleRun
    /\ NoTwin
    /\ tData = <<>> /\ tLocation = TRUE /\ tOut = NotApplied

\* The second run keeps its arguments for as long as the command runs.
TwinArgs(range) ==
    IF pc' = "idle" THEN twin_start' = NullV /\ twin_end' = NullV
    ELSE twin_start' = range.start_date /\ twin_end' = range.end_date

TwinRun(name, dt, range, other) ==
    /\ run_fetch_data(name, dt, range)
    /\ twin_rows' = twin_rows /\ twin_last' = last'
    /\ TwinArgs(other)

TwinFetch(payload) ==
    /\ _handle_fetch("ok", payload)
    /\ twin_rows' = twin_rows /\ twin_last' = last'
    /\ TwinArgs([start_date |-> twin_start, end_date |-> twin_end])

TwinLoopNext ==
    /\ _fetch_all_countries
    /\ twin_rows' = twin_rows /\ twin_last' = last'
    /\ TwinArgs([start_date |-> twin_start, end_date |-> twin_end])

TwinCases(fault) ==
    /\ _process_country_data_cases(fault)
    /\ LET half == ProcessedHalf(twin_rows, "daily_cases", fault, twin_start, twin_end)
       IN twin_rows' = half.rows /\ twin_last' = half.call
    /\ TwinArgs([start_date |-> twin_start, end_date |-> twin_end])

TwinVaccinations(fault) ==
    /\ _process_country_data_vaccinations(fault)
    /\ LET half == ProcessedHalf(twin_rows, "vaccination_data", fault, twin_start, twin_end)
       IN twin_rows' = half.rows /\ twin_last' = half.call
    /\ TwinArgs([start_date |-> twin_start, end_date |-> twin_end])

TwinLoopEnd ==
    /\ _fetch_all_countries_end
    /\ twin_rows' = twin_rows /\ twin_last' = last'
    /\ TwinArgs(NoRange)

NextR ==
    \/ \E name \in CountryArgs, dt \in DataTypes :
          \E range \in DateRanges, other \in DateRanges : TwinRun(name, dt, range, other)
    \/ \E payload \in TwinPayloads : TwinFetch(payload)
    \/ TwinLoopNext
    \/ \E fault \in InsertFaults : TwinCases(fault)
    \/ \E fault \in InsertFaults : TwinVaccinations(fault)
    \/ TwinLoopEnd

SpecRange == InitR /\ [][NextR]_vars

(***************************************************************************)
(* Properties of the transformer (SpecTransform).                          *)
(***************************************************************************)
DateParses(p) == "date" \in DOMAIN p /\ ToDatetime(p["date"]) # NaT

DatedPoints(data) == SelectSeq(data, DateParses)

NoInfinity(data) == \A i \in 1..Len(data) : \A f \in DOMAIN data[i] : data[i][f] # InfV

\* C6: for both field maps, the output holds exactly one row for every point
\* whose date parses, in order and with that date, and no row for a point whose
\* date is missing or does not parse (inputs on which the transformation as a
\* whole fails, which empties the output, are left aside).
C6_UndatedPointsDropped ==
    (tOut.applied /\ NoInfinity(tData)) =>
        \A out \in {tOut.cases, tOut.vaccinations} :
            /\ Len(out) = Len(DatedPoints(tData))
            /\ \A i \in 1..Len(out) :
                  out[i]["report_date"] = ToDatetime(DatedPoints(tData)[i]["date"])

CaseMetrics == {"total_cases", "new_cases", "total_deaths", "new_deaths"}
VaccinationMetrics == {"total_vaccinations", "people_vaccinated", "people_fully_vaccinated"}

\* The source value counts as no number: absent, null or a non-numeric string.
NoNumber(p, f) ==
    \/ f \notin DOMAIN p
    \/ p[f] = NullV
    \/ p[f] = StrV(<<"n", "/", "a">>)

RowShape(out, metrics) ==
    /\ \A i \in 1..Len(out) :
          /\ DOMAIN out[i] = metrics \cup {"report_date", "country_name"}
          /\ \A c \in metrics : out[i][c] \in Int
    /\ Len(out) = Len(tData) =>
          \A i \in 1..Len(out) : \A c \in metrics :
              /\ NoNumber(tData[i], c) => out[i][c] = 0
              /\ (c \in DOMAIN tData[i] /\ tData[i][c] = IntV(7)) => out[i][c] = 7
              /\ (c \in DOMAIN tData[i] /\ tData[i][c] = StrV(<<"1", "0", "0">>)) => out[i][c] = 100

ItalyRow ==
    [report_date |-> [y |-> 2021, m |-> 5, d |-> 1], country_name |-> Italy,
     total_cases |-> 0, new_cases |-> 100, total_deaths |-> 0, new_deaths |-> 0]

\* C7: every output row has exactly the target fields of its map plus
\* country_name, every metric is an integer, 0 when the source field is absent,
\* null or non-numeric; the Italian record of 2021-05-01 gives the stated row.
C7_RowShape ==
    tOut.applied =>
        /\ RowShape(tOut.cases, CaseMetrics)
        /\ RowShape(tOut.vaccinations, VaccinationMetrics)
        /\ (tData = <<ItalyPoint>> /\ tLocation) => tOut.cases = <<ItalyRow>>

C7_Witness ==
    /\ tOut.applied /\ tLocation /\ tData = <<ItalyPoint>>
    /\ tOut.cases = <<ItalyRow>> /\ Len(tOut.vaccinations) = 1

(***************************************************************************)
(* Properties of the commands (Spec).                                      *)
(***************************************************************************)
\* C1: each table holds at most one stored row per (report_date, country_name).
C1_OneRowPerKey ==
    \A t \in TableNames : \A r \in DOMAIN rows[t] :
        KeyCount(rows[t], r["report_date"], r["country_name"]) <= 1

\* C2: from the current database, insert_data of one row and then of the same row
\* again (neither call meeting a database error) leaves exactly one stored row
\* for the row's key; the second call skips 1 duplicate and returns 0.
C2_InsertTwice ==
    \A t \in exists : \A r \in {x \in DirectRows(t) : RequiredFields \subseteq DOMAIN x} :
        LET first == insert_data(exists, rows, t, <<r>>, "none")
            second == insert_data(exists, [rows EXCEPT ![t] = first.rows], t, <<r>>, "none")
            key == ConvertRow(r)
        IN /\ second.call.skipped = 1
           /\ second.call.ret = 0
           /\ KeyCount(second.rows, key["report_date"], key["country_name"]) = 1

InsertFailures == {"rejected", "db_error", "unexpected"}

\* C3: a step in which insert_data fails returns 0 and leaves every table with
\* exactly the rows it had.
C3_FailedInsertChangesNothing ==
    [][(last'.op = "insert_data" /\ last'.outcome \in InsertFailures)
          => (last'.ret = 0 /\ rows' = rows /\ exists' = exists)]_vars

C3_Witness ==
    /\ last.op = "insert_data" /\ last.outcome = "unexpected" /\ last.ret = 0
    /\ rows[last.table] # EmptyTable

HasOwidPrefix(code) ==
    /\ Len(code) >= 5
    /\ code[1] = "O" /\ code[2] = "W" /\ code[3] = "I" /\ code[4] = "D" /\ code[5] = "_"

RECURSIVE RealCodes(_)
\* The codes of a payload that carry no aggregate prefix, in payload order.
RealCodes(ds) ==
    IF ds = <<>> THEN <<>>
    ELSE (IF HasOwidPrefix(Head(ds).code) THEN <<>> ELSE <<Head(ds).code>>)
         \o RealCodes(Tail(ds))

AllMappings(ds) == \A i \in 1..Len(ds) : HasOwidPrefix(ds[i].code) \/ ds[i].rec.t = "obj"

AtLoopEnd == pc = "loop" /\ idx > Len(dataset)

FetchFailures == {"transport_error", "http_error"}

\* C5: when the remote fetch fails, fetch_data gets an empty mapping and ends at
\* once: no country is processed and both tables are as they were.
C5_FailedFetchChangesNothing ==
    [][(pc = "fetch" /\ last'.op = "fetch_data" /\ last'.api \in FetchFailures)
          => (last'.outcome = "fetch_failed" /\ pc' = "idle"
              /\ rows' = rows /\ exists' = exists)]_vars

C5_Witness ==
    /\ pc = "idle" /\ last.op = "fetch_data" /\ last.api = "http_error"
    /\ last.outcome = "fetch_failed"
    /\ rows["daily_cases"] # EmptyTable

\* C8: a fetch for cases leaves vaccination_data unchanged, a fetch for
\* vaccinations leaves daily_cases unchanged, and a fetch for all calls
\* insert_data for each table whose transform is not empty, whatever the cases
\* half did.
C8_DataTypeFilter ==
    [][/\ (pc # "idle" /\ data_type = "cases")
             => rows'["vaccination_data"] = rows["vaccination_data"]
       /\ (pc # "idle" /\ data_type = "vaccinations")
             => rows'["daily_cases"] = rows["daily_cases"]
       /\ (pc = "cases" /\ data_type = "all" /\ transform_cases(current.o) # <<>>)
             => (last'.op = "insert_data" /\ last'.table = "daily_cases")
       /\ (pc = "vaccs" /\ data_type = "all" /\ transform_vaccinations(current.o) # <<>>)
             => (last'.op = "insert_data" /\ last'.table = "vaccination_data")]_vars

C8_Witness ==
    /\ pc = "loop" /\ data_type = "all"
    /\ cases_result \in {"no_data", "db_error"}
    /\ last.op = "insert_data" /\ last.table = "vaccination_data"
    /\ last.outcome = "inserted"

\* C9: list_tables called right after a drop_tables that returned success
\* yields the empty list.
C9_DropThenList ==
    (last.op = "list_tables" /\ last.after_drop) => last.listed = <<>>

C9_Witness ==
    /\ last.op = "list_tables" /\ last.after_drop /\ last.outcome = "none"
    /\ last.listed = <<>>

\* C12: the rows a fetch_data run transforms and inserts do not depend on
\* --start_date or --end_date: two runs on the same payload and the same database
\* state that differ only in those two arguments make the same insert_data calls
\* and hold the same rows at every step, and so at their end.
C12_DateRangeNotApplied == rows = twin_rows /\ last = twin_last

\* Of two runs, one with a range that starts the day after the Italian point's
\* date and one with no range, both have inserted that point's row.
C12_Witness ==
    /\ pc = "vaccs" /\ start_date = StrV(Day2) /\ twin_start = NullV /\ twin_end = NullV
    /\ last.op = "insert_data" /\ last.table = "daily_cases" /\ last.outcome = "inserted"
    /\ KeyCount(rows["daily_cases"], [y |-> 2021, m |-> 5, d |-> 1], Italy) >= 1
    /\ KeyCount(twin_rows["daily_cases"], [y |-> 2021, m |-> 5, d |-> 1], Italy) >= 1

\* C11: every gateway operation (create_tables, insert_data, query_data,
\* list_tables, drop_tables) closes the cursor it opened on every exit (return,
\* early rejection, logged database error, exception), so no cursor is open in
\* any state between two operations.
C11_NoCursorLeftOpen == open_cursors = 0

\* An insert that opened its cursor and left through the handler of an
\* unexpected exception.
C11_Witness ==
    /\ last.op = "insert_data" /\ last.outcome = "unexpected" /\ last.bound
    /\ open_cursors = 0

\* C10: an all-countries loop ends only after every record of the payload: every
\* record without the aggregate prefix was attempted, in order, and processed +
\* skipped is the number of records.
C10_LoopRunsToTheEnd ==
    [][(pc = "loop" /\ pc' = "idle")
          => (/\ idx > Len(dataset)
              /\ attempted = RealCodes(dataset)
              /\ processed + skipped = Len(dataset))]_vars

====
